---- MODULE Spec2Model ----
(***************************************************************************)
(* Order placement of the customer_order application: the POST /orders/    *)
(* handler (OrderListCreateView with OrderCreateSerializer), the product   *)
(* update and delete endpoints that share the product table with it, and   *)
(* the database rows they read and write.  Money is counted in cents.      *)
(***************************************************************************)
EXTENDS Integers, Sequences, FiniteSets, TLC

\* ---------------------------------------------------------------- bounds
MaxQty == 2
MaxStock == 2
MaxLines == 2
MaxClock == 1
OtherPrice == 500

\* price and stock of the product the API tests create (99.99, 10 in stock)
TestPrice == 9999
TestStock == 10

Products == {"p1", "p2"}
Reqs == {"r1", "r2"}

Quantities == {-1} \cup (0..MaxQty)
StockValues == (0..MaxStock) \cup {TestStock}
Prices == {TestPrice, OtherPrice}

\* ------------------------------------------------------------ the tables
VARIABLES
    product,    \* products table: product id -> row (NoRow when there is none)
    orders,     \* orders table, committed rows
    items,      \* order_items table, committed rows
    clock,      \* the last value time.time() returned, in seconds
    pc,         \* where each request's handler stands
    request,    \* request.user and request.data of each request
    response,   \* the response of each request
    local,      \* the handler's local variables
    txn,        \* the uncommitted writes of the request's transaction
    read,       \* the answer of the last read (order detail, order list)
    saved,      \* how the last Order.objects.create of the model layer ended
    outbox,     \* the messages handed to the SMS gateway and the mail server
    log,        \* what the notification code has logged
    call,       \* the notification function that is running, and how it ended
    config,     \* settings and customer data the notifications depend on
    category,   \* categories table: category name -> row
    category_of, \* the category column of the products table
    walk,       \* the Category method that is running, and how far it has got
    answer      \* the answer of the last catalog or statistics endpoint

vars ==
    <<product, orders, items, clock, pc, request, response, local, txn, read,
      saved, outbox, log, call, config, category, category_of, walk, answer>>

\* what the order-creation and product handlers never touch
ext == <<read, saved, log, call, config, category, category_of, walk, answer>>

extAll == <<ext, outbox>>

NoRow == [exists |-> FALSE, is_active |-> FALSE, price |-> 0, stock_quantity |-> 0]

Row(active, price, stock) ==
    [exists |-> TRUE, is_active |-> active, price |-> price, stock_quantity |-> stock]

InitPrice(p) == IF p = "p1" THEN TestPrice ELSE OtherPrice

\* the authenticated user of a request
UserOf(r) == IF r = "r1" THEN "c1" ELSE "c2"

\* Product.stock_quantity is a PositiveIntegerField: the serializer field
\* derived from it and the column's CHECK constraint both refuse a negative
\* value.
StockQuantityField_Integer(v) == v \in Int

StockQuantityField(v) == v >= 0

\* Product.price: MinValueValidator(Decimal('0.01')), run by the serializer
\* (prices are counted in cents).
PriceField(v) == v >= 1

\* OrderItem.quantity is a PositiveIntegerField as well.  The
\* MinValueValidator(1) declared on it runs only in full_clean(), which
\* objects.create() does not call.
QuantityField(v) == v >= 0

\* ------------------------------------------------------- request payloads
Line(p, q) == [product_id |-> p, quantity |-> q]
Lines == {Line(p, q) : p \in Products, q \in Quantities}

SeqsUpTo(S, n) == UNION {[1..k -> S] : k \in 0..n}

Payload(a, ls) == [shipping_address |-> a, items |-> ls]

\* every payload within the bounds
Payloads == {Payload(a, ls) : a \in {"", "addr"}, ls \in SeqsUpTo(Lines, MaxLines)}

\* one line, a positive quantity, an address: the requests that race
SmallPayloads ==
    {Payload("addr", <<Line(p, q)>>) : p \in Products, q \in 1..MaxQty}

\* --------------------------------------------------------------- errors
Err(field, code, p, n) == [field |-> field, code |-> code, product |-> p, available |-> n]

NoResponse == [status |-> 0, errors |-> {}]

NoLocal ==
    [items |-> <<>>, total_amount |-> 0, i |-> 0, product |-> NoRow, sum |-> 0]

NoTxn == [active |-> FALSE, orders |-> {}, items |-> {}, writes |-> {}]

NoSave == [customer |-> "", order_number |-> 0 - 1, error |-> ""]

\* categories, known by their unique name
Cats == {"k1", "k2", "k3"}

NoCat == [exists |-> FALSE, parent |-> "none", is_active |-> FALSE]

Cat(parent, active) == [exists |-> TRUE, parent |-> parent, is_active |-> active]

\* one root category that holds every product
OneCategory == [k \in Cats |-> IF k = "k1" THEN Cat("none", TRUE) ELSE NoCat]

NoCall == [fn |-> "", order |-> "", stage |-> "idle", failure |-> FALSE]

\* AFRICAS_TALKING_API_KEY is set and every customer has a phone number
DefaultConfig == [api_key |-> TRUE, phone |-> [c \in {"c1", "c2"} |-> TRUE]]

NoRead == [op |-> "none", user |-> "", id |-> "", status |-> 0, results |-> {}]

\* no Category method is running
NoWalk ==
    [fn |-> "none", of |-> "none", current |-> "none", level |-> 0,
     path |-> <<>>, stack |-> <<>>, text |-> "", state |-> "idle"]

\* no catalog or statistics endpoint has answered
NoAnswer == [op |-> "none", status |-> 0]

\* ------------------------------------------------------------ validation
\* Product.objects.get(id=..., is_active=True) of validate_items: the row, or
\* NoRow for Product.DoesNotExist.
GetActiveProduct_AnyActivity(db, id) == db[id]

GetActiveProduct(db, id) ==
    IF db[id].exists /\ db[id].is_active THEN db[id] ELSE NoRow

\* The body of validate_items' loop for one line: the ValidationError it
\* raises, or {} when the line passes.
ItemErrors_NoStockCheck(db, line) ==
    LET row == GetActiveProduct(db, line.product_id)
    IN  IF ~row.exists
        THEN {Err("items", "not_found", line.product_id, 0)}
        ELSE {}

ItemErrors(db, line) ==
    LET row == GetActiveProduct(db, line.product_id)
    IN  IF ~row.exists
        THEN {Err("items", "not_found", line.product_id, 0)}
        ELSE IF line.quantity > row.stock_quantity
             THEN {Err("items", "insufficient_stock", line.product_id,
                       row.stock_quantity)}
             ELSE {}

\* the index of the first line that raises, 0 when none does
FirstBadLine(db, ls) ==
    LET bad == {i \in 1..Len(ls) : ItemErrors(db, ls[i]) # {}}
    IN  IF bad = {} THEN 0 ELSE CHOOSE i \in bad : \A j \in bad : i <= j

\* validate_items: the first ValidationError raised, {} when the list passes
ValidateItems(db, ls) ==
    IF ls = <<>>
    THEN {Err("items", "empty", "", 0)}
    ELSE IF FirstBadLine(db, ls) = 0
         THEN {}
         ELSE ItemErrors(db, ls[FirstBadLine(db, ls)])

\* Order.shipping_address is a TextField without blank=True: the serializer
\* field is required and refuses the empty string.
ValidateAddress(a) ==
    IF a = "" THEN {Err("shipping_address", "blank", "", 0)} ELSE {}

\* serializer.is_valid(): every field is validated and the errors collected
SerializerErrors(db, data) ==
    ValidateAddress(data.shipping_address) \cup ValidateItems(db, data.items)

TypeOK ==
    /\ clock \in 0..MaxClock
    /\ \A r \in Reqs : response[r].status \in {0, 201, 400, 404, 500}
    /\ \A p \in Products : product[p].exists \/ product[p] = NoRow

\* the products table with every present row's stock drawn from stocks
Catalogs(stocks) ==
    [Products -> {NoRow} \cup {Row(a, v, s) : a \in BOOLEAN, v \in Prices, s \in stocks}]

InitWith(stocks) ==
    /\ product \in Catalogs(stocks)
    /\ \A p \in Products : product[p].exists => product[p].price = InitPrice(p)
    /\ orders = {}
    /\ items = {}
    /\ clock = 0
    /\ pc = [r \in Reqs |-> "idle"]
    /\ request = [r \in Reqs |->
                    [user |-> UserOf(r), data |-> Payload("", <<>>)]]
    /\ response = [r \in Reqs |-> NoResponse]
    /\ local = [r \in Reqs |-> NoLocal]
    /\ txn = [r \in Reqs |-> NoTxn]
    /\ read = NoRead
    /\ saved = NoSave
    /\ outbox = {}
    /\ log = {}
    /\ call = NoCall
    /\ config = DefaultConfig
    /\ category = OneCategory
    /\ category_of = [p \in Products |-> "k1"]
    /\ walk = NoWalk
    /\ answer = NoAnswer

Init == InitWith(0..MaxStock)

\* every product that is there has one unit left
InitRace == InitWith({1})

InitInputs == InitWith(StockValues)

\* CreateModelMixin.create up to perform_create: the request arrives and
\* serializer.is_valid(raise_exception=True) runs.
Submit(r, data) ==
    /\ pc[r] = "idle"
    /\ request' = [request EXCEPT ![r].data = data]
    /\ LET errs == SerializerErrors(product, data)
       IN  IF errs # {}
           THEN /\ response' = [response EXCEPT ![r] = [status |-> 400, errors |-> errs]]
                /\ pc' = [pc EXCEPT ![r] = "done"]
           ELSE /\ response' = response
                /\ pc' = [pc EXCEPT ![r] = "perform"]
    /\ UNCHANGED <<product, orders, items, clock, local, txn>>
    /\ UNCHANGED extAll


\* perform_create, lines 210-226: the view looks every line's product up
\* again with get_object_or_404(Product, id=..., is_active=True) and prices
\* the lines itself.
GetObjectOr404(db, id) ==
    IF db[id].exists /\ db[id].is_active THEN db[id] ELSE NoRow

ViewItem(db, line) ==
    [product |-> line.product_id, stock_quantity |-> db[line.product_id].stock_quantity,
     quantity |-> line.quantity,
     unit_price |-> db[line.product_id].price,
     total_price |-> db[line.product_id].price * line.quantity]

RECURSIVE SumTotal(_)
SumTotal(s) ==
    IF s = <<>> THEN 0 ELSE s[1].total_price + SumTotal(Tail(s))

PerformCreate(r) ==
    /\ pc[r] = "perform"
    /\ LET ls == request[r].data.items
           gone == {i \in 1..Len(ls) : ~GetObjectOr404(product, ls[i].product_id).exists}
           its == [i \in 1..Len(ls) |-> ViewItem(product, ls[i])]
       IN  IF gone # {}
           THEN /\ response' = [response EXCEPT ![r] =
                       [status |-> 404,
                        errors |-> {Err("detail", "not_found",
                                        ls[CHOOSE i \in gone : \A j \in gone : i <= j].product_id, 0)}]]
                /\ pc' = [pc EXCEPT ![r] = "done"]
                /\ local' = local
           ELSE /\ response' = response
                /\ pc' = [pc EXCEPT ![r] = "save"]
                /\ local' = [local EXCEPT ![r].items = its,
                                          ![r].total_amount = SumTotal(its)]
    /\ UNCHANGED <<product, orders, items, clock, request, txn>>
    /\ UNCHANGED extAll

\* ------------------------------------------------- serializer.save(...)
\* The keyword arguments perform_create hands to serializer.save(); save()
\* merges them into validated_data.
SaveKwargs_AddressOnly == {"shipping_address"}

SaveKwargs == {"customer", "total_amount", "shipping_address"}

\* The fields of OrderCreateSerializer that reach validated_data.
SerializerFields == {"shipping_address", "notes", "items"}

\* The keywords create() spells out in Order.objects.create(customer=...,
\* total_amount=..., **validated_data).
CreateKeywords_None == {}

CreateKeywords == {"customer", "total_amount"}

\* validated_data as create() unpacks it, after items is popped
ValidatedKeys == (SerializerFields \cup SaveKwargs) \ {"items"}

\* A keyword given both by name and through **validated_data: Python raises
\* TypeError (multiple values for keyword argument) before the call is made.
KeywordClash == CreateKeywords \cap ValidatedKeys # {}

\* the rows a transaction sees: its own writes over the committed table
TxRead(r, p) ==
    IF \E w \in txn[r].writes : w.product = p
    THEN (CHOOSE w \in txn[r].writes : w.product = p).row
    ELSE product[p]

\* another open transaction holds the row lock of product p
RowLocked(r, p) ==
    \E s \in Reqs \ {r} : txn[s].active /\ \E w \in txn[s].writes : w.product = p

Failed(code) == [status |-> 500, errors |-> {Err("", code, "", 0)}]

\* an exception leaves the atomic block: the transaction is rolled back and
\* the request ends in a server error
RollBack(r, code) ==
    /\ txn' = [txn EXCEPT ![r] = NoTxn]
    /\ response' = [response EXCEPT ![r] = Failed(code)]
    /\ pc' = [pc EXCEPT ![r] = "done"]
    /\ UNCHANGED <<product, orders, items, request, local>>

\* create(), lines 177-187, with Order.save(): the order row is inserted with
\* the order number ORD-<seconds> and a placeholder total.
CreateOrderRow(r) ==
    IF KeywordClash
    THEN RollBack(r, "TypeError") /\ clock' = clock
    ELSE IF "customer" \notin CreateKeywords \cup ValidatedKeys
         THEN RollBack(r, "IntegrityError") /\ clock' = clock
         ELSE \E t \in clock..MaxClock :
                /\ clock' = t
                /\ IF \E o \in orders : o.order_number = t
                   THEN RollBack(r, "IntegrityError")
                   ELSE /\ \A s \in Reqs \ {r} :
                              \A o \in txn[s].orders : o.order_number # t
                        /\ txn' = [txn EXCEPT ![r] =
                              [active |-> TRUE,
                               orders |-> {[id |-> r, order_number |-> t,
                                            customer |-> request[r].user,
                                            status |-> "pending",
                                            total_amount |->
                                                IF "total_amount" \in CreateKeywords
                                                THEN 0 ELSE local[r].total_amount,
                                            shipping_address |->
                                                request[r].data.shipping_address]},
                               items |-> {}, writes |-> {}]]
                        /\ local' = [local EXCEPT ![r].i = 1, ![r].sum = 0]
                        /\ pc' = [pc EXCEPT ![r] = "create_get"]
                        /\ UNCHANGED <<product, orders, items, request, response>>

\* line 193: Product.objects.get(id=...), without the is_active filter
CreateGetProduct(r) ==
    LET line == request[r].data.items[local[r].i]
        row == TxRead(r, line.product_id)
    IN  /\ clock' = clock
        /\ IF ~row.exists
           THEN RollBack(r, "DoesNotExist")
           ELSE /\ local' = [local EXCEPT ![r].product = row]
                /\ pc' = [pc EXCEPT ![r] = "create_insert"]
                /\ UNCHANGED <<product, orders, items, request, response, txn>>

\* OrderItem.save(): total_price = unit_price * quantity
ItemRow(o, p, q, price) ==
    [order |-> o, product |-> p, quantity |-> q, unit_price |-> price,
     total_price |-> price * q]

\* lines 196-203: OrderItem.objects.create(...) and the running total
CreateInsertItem(r) ==
    LET line == request[r].data.items[local[r].i]
        it == ItemRow(r, line.product_id, line.quantity, local[r].product.price)
    IN  /\ clock' = clock
        /\ IF \/ ~QuantityField(line.quantity)
              \/ \E x \in txn[r].items : x.order = r /\ x.product = line.product_id
           THEN RollBack(r, "IntegrityError")
           ELSE /\ txn' = [txn EXCEPT ![r].items = @ \cup {it}]
                /\ local' = [local EXCEPT ![r].sum = @ + it.total_price]
                /\ pc' = [pc EXCEPT ![r] = "create_stock"]
                /\ UNCHANGED <<product, orders, items, request, response>>

\* lines 206-207: product.stock_quantity -= quantity; product.save().  save()
\* writes every column of the row from the object read at line 193.
CreateSaveStock(r) ==
    LET line == request[r].data.items[local[r].i]
        p == line.product_id
        row == [local[r].product EXCEPT
                   !.stock_quantity = @ - line.quantity]
    IN  /\ clock' = clock
        /\ IF ~StockQuantityField(row.stock_quantity)
           THEN RollBack(r, "IntegrityError")
           ELSE /\ ~RowLocked(r, p)
                /\ txn' = [txn EXCEPT ![r].writes =
                              {w \in @ : w.product # p} \cup {[product |-> p, row |-> row]}]
                /\ IF local[r].i < Len(request[r].data.items)
                   THEN /\ local' = [local EXCEPT ![r].i = @ + 1]
                        /\ pc' = [pc EXCEPT ![r] = "create_get"]
                   ELSE /\ local' = local
                        /\ pc' = [pc EXCEPT ![r] = "create_total"]
                /\ UNCHANGED <<product, orders, items, request, response>>

\* lines 210-213: the total is written to the order row, create() returns
\* and the atomic block commits.
CreateCommit(r) ==
    /\ clock' = clock
    /\ orders' = orders \cup
          {[o EXCEPT !.total_amount = local[r].sum] : o \in txn[r].orders}
    /\ items' = items \cup txn[r].items
    /\ product' = [p \in Products |-> TxRead(r, p)]
    /\ txn' = [txn EXCEPT ![r] = NoTxn]
    /\ local' = [local EXCEPT ![r].i = 1]
    /\ pc' = [pc EXCEPT ![r] = "view_item"]
    /\ UNCHANGED <<request, response>>

\* perform_create, lines 236-243: the view inserts an OrderItem for each line
\* again, each insert in its own transaction.
ViewInsertItem(r) ==
    LET v == local[r].items[local[r].i]
        it == ItemRow(r, v.product, v.quantity, v.unit_price)
    IN  /\ clock' = clock
        /\ IF \/ ~QuantityField(v.quantity)
              \/ ~product[v.product].exists
              \/ \E x \in items : x.order = r /\ x.product = v.product
           THEN /\ response' = [response EXCEPT ![r] = Failed("IntegrityError")]
                /\ pc' = [pc EXCEPT ![r] = "done"]
                /\ UNCHANGED <<product, orders, items, request, local, txn>>
           ELSE /\ items' = items \cup {it}
                /\ IF local[r].i < Len(local[r].items)
                   THEN /\ local' = [local EXCEPT ![r].i = @ + 1]
                        /\ pc' = pc
                   ELSE /\ local' = local
                        /\ pc' = [pc EXCEPT ![r] = "notify"]
                /\ UNCHANGED <<product, orders, request, response, txn>>

\* perform_create, lines 246-247, and the 201 response
ViewNotify(r) ==
    /\ response' = [response EXCEPT ![r] = [status |-> 201, errors |-> {}]]
    /\ pc' = [pc EXCEPT ![r] = "done"]
    /\ UNCHANGED <<product, orders, items, clock, request, local, txn>>

\* Where perform_create calls send_customer_sms and send_admin_email: at
\* lines 246-247, after serializer.save() and the item inserts.
NotifyLabels_BeforeSave == {"save"}

NotifyLabels == {"notify"}

\* What the two calls hand over for the order of request r: an SMS when the
\* customer has a phone number and the API key is set, and the admin email.
\* Each message records whether the order row was committed and whether the
\* request's transaction was open when it was handed over.
Message(r, kind) ==
    [order |-> r, kind |-> kind,
     committed |-> \E o \in orders : o.id = r,
     in_txn |-> txn[r].active]

Dispatches(r) ==
    IF config.phone[request[r].user] /\ config.api_key
    THEN {Message(r, "sms")} ELSE {Message(r, "email")}

\* requests.post(...) and send_mail(...) are called without a timeout, in
\* the request's own thread: a handler that has handed a message over goes
\* on when the reply is there.  Here the gateway and the mail server never
\* reply, so it is the first message of the two that is handed over.
Waiting(r) == \E m \in outbox : m.order = r

SaveLabels ==
    {"save", "create_get", "create_insert", "create_stock", "create_total",
     "view_item", "notify"}

\* perform_create from line 229 on: serializer.save(...) runs create() in
\* its atomic block, then the view goes on with the order create() returned.
\* One step of it.
SerializerSave(r) ==
    /\ pc[r] \in SaveLabels
    /\ ~Waiting(r)
    /\ IF pc[r] \in NotifyLabels
       THEN /\ outbox' = outbox \cup Dispatches(r)
            /\ UNCHANGED <<product, orders, items, clock, pc, request, response,
                           local, txn>>
       ELSE /\ outbox' = outbox
            /\ CASE pc[r] = "save" -> CreateOrderRow(r)
                 [] pc[r] = "create_get" -> CreateGetProduct(r)
                 [] pc[r] = "create_insert" -> CreateInsertItem(r)
                 [] pc[r] = "create_stock" -> CreateSaveStock(r)
                 [] pc[r] = "create_total" -> CreateCommit(r)
                 [] pc[r] = "view_item" -> ViewInsertItem(r)
                 [] pc[r] = "notify" -> ViewNotify(r)
    /\ UNCHANGED ext

\* ------------------------------------------------ the product endpoints
\* ProductDetailView, PATCH of price, stock_quantity or is_active: the field
\* of the row is replaced after the serializer has validated it.
PatchValid(field, v) ==
    CASE field = "price" -> PriceField(v)
      [] field = "stock_quantity" -> StockQuantityField(v)
      [] field = "is_active" -> v \in BOOLEAN

Patches ==
    {<<"stock_quantity", v>> : v \in (0 - 1)..MaxStock}
    \cup {<<"is_active", v>> : v \in BOOLEAN}

\* the patches of the price
PricePatches == {<<"price", v>> : v \in {0} \cup Prices}

UpdateProduct_Repricing(p, patch) ==
    /\ product[p].exists
    /\ PatchValid(patch[1], patch[2])
    /\ product' = [product EXCEPT ![p] =
          CASE patch[1] = "price" -> [@ EXCEPT !.price = patch[2]]
            [] patch[1] = "stock_quantity" -> [@ EXCEPT !.stock_quantity = patch[2]]
            [] patch[1] = "is_active" -> [@ EXCEPT !.is_active = patch[2]]]
    /\ product' # product
    /\ items' = {IF x.product = p
                 THEN [x EXCEPT !.unit_price = product'[p].price,
                                !.total_price = product'[p].price * x.quantity]
                 ELSE x : x \in items}
    /\ UNCHANGED <<orders, clock, pc, request, response, local, txn>>
    /\ UNCHANGED extAll

UpdateProduct(p, patch) ==
    /\ product[p].exists
    /\ PatchValid(patch[1], patch[2])
    /\ \A r \in Reqs : ~(txn[r].active /\ \E w \in txn[r].writes : w.product = p)
    /\ product' = [product EXCEPT ![p] =
          CASE patch[1] = "price" -> [@ EXCEPT !.price = patch[2]]
            [] patch[1] = "stock_quantity" -> [@ EXCEPT !.stock_quantity = patch[2]]
            [] patch[1] = "is_active" -> [@ EXCEPT !.is_active = patch[2]]]
    /\ product' # product
    /\ UNCHANGED <<orders, items, clock, pc, request, response, local, txn>>
    /\ UNCHANGED extAll

\* ProductDetailView, DELETE: OrderItem.product is on_delete=CASCADE, so the
\* order items of the product go with it.
DeleteProduct(p) ==
    /\ product[p].exists
    /\ \A r \in Reqs :
          ~(txn[r].active /\ (\/ \E w \in txn[r].writes : w.product = p
                              \/ \E x \in txn[r].items : x.product = p))
    /\ product' = [product EXCEPT ![p] = NoRow]
    /\ items' = {x \in items : x.product # p}
    /\ UNCHANGED <<orders, clock, pc, request, response, local, txn>>
    /\ UNCHANGED extAll

\* --------------------------------------------------------- specifications
\* concurrent requests beside the product endpoints
Next ==
    \/ \E r \in Reqs, d \in SmallPayloads : Submit(r, d)
    \/ \E r \in Reqs : PerformCreate(r)
    \/ \E r \in Reqs : SerializerSave(r)
    \/ \E p \in Products, patch \in Patches : UpdateProduct(p, patch)
    \/ \E p \in Products : DeleteProduct(p)

Spec == Init /\ [][Next]_vars

\* concurrent requests alone
NextRace ==
    \/ \E r \in Reqs, d \in SmallPayloads : Submit(r, d)
    \/ \E r \in Reqs : PerformCreate(r)
    \/ \E r \in Reqs : SerializerSave(r)

SpecRace == InitRace /\ [][NextRace]_vars

\* the same, each request's handler running on once it has started
SpecLive ==
    /\ InitRace
    /\ [][NextRace]_vars
    /\ \A r \in Reqs : WF_vars(PerformCreate(r)) /\ WF_vars(SerializerSave(r))

\* one request with any payload, nothing beside it
NextInputs ==
    \/ \E d \in Payloads : Submit("r1", d)
    \/ PerformCreate("r1")
    \/ SerializerSave("r1")

SpecInputs == InitInputs /\ [][NextInputs]_vars

\* ------------------------------------------------- a store holding orders
\* No request commits an order (KeywordClash), so the handlers that work on
\* stored orders are run over a database that holds orders already, written
\* through the model layer the way tests.py sets its orders up with
\* Order.objects.create: each order with the items create() would give it,
\* the unit price taken from the product and the total the sum of its items.
Customers == {UserOf(r) : r \in Reqs}

OrderIds == {"o1", "o2"}

\* Order.STATUS_CHOICES, in their order
STATUS_CHOICES ==
    <<"pending", "confirmed", "processing", "shipped", "delivered", "cancelled">>

Statuses == {STATUS_CHOICES[i] : i \in 1..Len(STATUS_CHOICES)}

StoredNumber(o) == IF o = "o1" THEN 0 ELSE 1

StoredItems(o, ps, q) == {ItemRow(o, p, q, product[p].price) : p \in ps}

RECURSIVE SumOf(_)
SumOf(S) ==
    IF S = {} THEN 0
    ELSE LET x == CHOOSE y \in S : TRUE IN x.total_price + SumOf(S \ {x})

StoredOrder(o, c, total) ==
    [id |-> o, order_number |-> StoredNumber(o), customer |-> c,
     status |-> "pending", total_amount |-> total, shipping_address |-> "addr"]

StoredWith(configs) ==
    /\ product \in Catalogs({1})
    /\ \A p \in Products : product[p].exists => product[p].price = InitPrice(p)
    /\ \E S \in SUBSET OrderIds, owner \in [OrderIds -> Customers],
          ps \in [OrderIds -> (SUBSET Products) \ {{}}], q \in 1..MaxQty :
            /\ \A o \in S : \A p \in ps[o] : product[p].exists
            /\ items = UNION {StoredItems(o, ps[o], q) : o \in S}
            /\ orders = {StoredOrder(o, owner[o], SumOf(StoredItems(o, ps[o], q))) : o \in S}
    /\ clock = MaxClock
    /\ pc = [r \in Reqs |-> "idle"]
    /\ request = [r \in Reqs |->
                    [user |-> UserOf(r), data |-> Payload("", <<>>)]]
    /\ response = [r \in Reqs |-> NoResponse]
    /\ local = [r \in Reqs |-> NoLocal]
    /\ txn = [r \in Reqs |-> NoTxn]
    /\ read = NoRead
    /\ saved = NoSave
    /\ outbox = {}
    /\ log = {}
    /\ call = NoCall
    /\ config \in configs
    /\ category = OneCategory
    /\ category_of = [p \in Products |-> "k1"]
    /\ walk = NoWalk
    /\ answer = NoAnswer

InitStored == StoredWith({DefaultConfig})

\* ---------------------------------------------------------- Order.save
\* Order.objects.create(customer=, shipping_address=, total_amount=), the
\* call tests.py makes: Order.save() finds order_number empty and sets it to
\* ORD-<int(time.time())>, and the insert meets the unique constraint of the
\* column.
OrderNumber(t) == t

OrderObjectsCreate(c, total) ==
    \E t \in clock..MaxClock :
        /\ clock' = t
        /\ IF \E y \in orders : y.order_number = OrderNumber(t)
           THEN /\ saved' = [customer |-> c, order_number |-> OrderNumber(t),
                             error |-> "IntegrityError"]
                /\ orders' = orders
           ELSE \E o \in OrderIds :
                /\ \A y \in orders : y.id # o
                /\ saved' = [customer |-> c, order_number |-> OrderNumber(t),
                             error |-> ""]
                /\ orders' = orders \cup
                      {[id |-> o, order_number |-> OrderNumber(t), customer |-> c,
                        status |-> "pending", total_amount |-> total,
                        shipping_address |-> "addr"]}
        /\ UNCHANGED <<product, items, pc, request, response, local, txn, read,
                       outbox, log, call, config, category, category_of, walk, answer>>

NextOrderSave ==
    \E c \in Customers, total \in Prices : OrderObjectsCreate(c, total)

SpecOrderSave == InitRace /\ [][NextOrderSave]_vars

\* -------------------------------------------------------- reading orders
\* OrderDetailView.get_queryset: Order.objects.filter(customer=request.user)
OrderDetailQueryset_All(c) == orders

OrderDetailQueryset(c) == {o \in orders : o.customer = c}

\* OrderListCreateView.get_queryset: the same filter (the ordering by
\* created_at is left out)
OrderListQueryset(c) == {o \in orders : o.customer = c}

\* GET /orders/<id>/: get_object() looks the id up in the queryset and
\* answers 404 when it is not there.
GetOrder(c, id) ==
    /\ LET found == {o \in OrderDetailQueryset(c) : o.id = id}
       IN  read' = [op |-> "detail", user |-> c, id |-> id,
                    status |-> IF found = {} THEN 404 ELSE 200,
                    results |-> found]
    /\ UNCHANGED <<product, orders, items, clock, pc, request, response, local,
                   txn, saved, outbox, log, call, config, category, category_of, walk, answer>>

\* GET /orders/
ListOrders(c) ==
    /\ read' = [op |-> "list", user |-> c, id |-> "", status |-> 200,
                results |-> OrderListQueryset(c)]
    /\ UNCHANGED <<product, orders, items, clock, pc, request, response, local,
                   txn, saved, outbox, log, call, config, category, category_of, walk, answer>>

\* ------------------------------------------------------- notifications
\* The notification functions, run on a stored order.  A function that has
\* handed its message over waits for the gateway or the mail server; the
\* reply, when one comes, is a success, a refusal or an exception.
Configs ==
    [api_key : BOOLEAN, phone : [Customers -> BOOLEAN]]

Entry(level, fn, o) == [level |-> level, fn |-> fn, order |-> o]

Running(fn, o) == [fn |-> fn, order |-> o, stage |-> "waiting", failure |-> FALSE]

Returned(fn, o, failure) ==
    [fn |-> fn, order |-> o, stage |-> "returned", failure |-> failure]

Raised(fn, o, failure) ==
    [fn |-> fn, order |-> o, stage |-> "raised", failure |-> failure]

Sent(o, kind) == [order |-> o, kind |-> kind, committed |-> TRUE, in_txn |-> FALSE]

NotifyFrame ==
    UNCHANGED <<product, orders, items, clock, pc, request, response, local, txn,
                read, saved, config, category, category_of, walk, answer>>

\* views.py send_customer_sms, lines 249-276, up to requests.post(...)
SendCustomerSms(o) ==
    /\ call.stage # "waiting"
    /\ \E x \in orders : x.id = o
    /\ LET c == (CHOOSE x \in orders : x.id = o).customer
       IN  IF ~config.phone[c]
           THEN /\ log' = log \cup {Entry("warning", "send_customer_sms", o)}
                /\ call' = Returned("send_customer_sms", o, FALSE)
                /\ outbox' = outbox
           ELSE IF ~config.api_key
           THEN /\ log' = log \cup {Entry("info", "send_customer_sms", o)}
                /\ call' = Returned("send_customer_sms", o, FALSE)
                /\ outbox' = outbox
           ELSE /\ log' = log
                /\ call' = Running("send_customer_sms", o)
                /\ outbox' = outbox \cup {Sent(o, "sms")}
    /\ NotifyFrame

\* views.py send_admin_email, lines 286-326, up to send_mail(...)
SendAdminEmail(o) ==
    /\ call.stage # "waiting"
    /\ \E x \in orders : x.id = o
    /\ log' = log
    /\ call' = Running("send_admin_email", o)
    /\ outbox' = outbox \cup {Sent(o, "email")}
    /\ NotifyFrame

\* tasks.py send_order_sms, lines 14-24: Order.objects.get(id=order_id) is
\* outside the try.
SendOrderSms(o) ==
    /\ call.stage # "waiting"
    /\ log' = log
    /\ IF \E x \in orders : x.id = o
       THEN /\ call' = Running("send_order_sms", o)
            /\ outbox' = outbox \cup {Sent(o, "sms")}
       ELSE /\ call' = Raised("send_order_sms", o, FALSE)
            /\ outbox' = outbox
    /\ NotifyFrame

\* tasks.py send_order_email, lines 30-52: no try at all, and the loop over
\* the items reads item.price_at_purchase, which OrderItem does not have.
SendOrderEmail(o) ==
    /\ call.stage # "waiting"
    /\ log' = log
    /\ IF (\E x \in orders : x.id = o) /\ ~(\E x \in items : x.order = o)
       THEN /\ call' = Running("send_order_email", o)
            /\ outbox' = outbox \cup {Sent(o, "email")}
       ELSE /\ call' = Raised("send_order_email", o, FALSE)
            /\ outbox' = outbox
    /\ NotifyFrame

Outcomes == {"ok", "refused", "exception"}

\* The gateway or the mail server replies and the function that waits goes
\* on: views.py 277-284 and 328-333, tasks.py 24-28 and 46-52.
Reply(outcome) ==
    /\ call.stage = "waiting"
    /\ outbox' = outbox
    /\ LET fn == call.fn
           o == call.order
       IN  CASE fn = "send_customer_sms" ->
                  /\ log' = log \cup
                        {Entry(IF outcome = "ok" THEN "info" ELSE "error", fn, o)}
                  /\ call' = Returned(fn, o, outcome # "ok")
             [] fn = "send_admin_email" ->
                  /\ outcome # "refused"
                  /\ log' = log \cup
                        {Entry(IF outcome = "ok" THEN "info" ELSE "error", fn, o)}
                  /\ call' = Returned(fn, o, outcome # "ok")
             [] fn = "send_order_sms" ->
                  /\ outcome # "refused"
                  /\ log' = IF outcome = "ok" THEN log
                            ELSE log \cup {Entry("print", fn, o)}
                  /\ call' = Returned(fn, o, outcome # "ok")
             [] fn = "send_order_email" ->
                  /\ outcome # "refused"
                  /\ log' = log
                  /\ call' = IF outcome = "ok" THEN Returned(fn, o, FALSE)
                                               ELSE Raised(fn, o, TRUE)
    /\ NotifyFrame

\* one stored order, of any customer, under every configuration
InitNotify ==
    /\ StoredWith(Configs)
    /\ {x.id : x \in orders} = {"o1"}
    /\ \A p \in Products : product[p].exists /\ product[p].is_active

NextNotify ==
    \/ \E o \in OrderIds : SendCustomerSms(o)
    \/ \E o \in OrderIds : SendAdminEmail(o)
    \/ \E o \in OrderIds : SendOrderSms(o)
    \/ \E o \in OrderIds : SendOrderEmail(o)
    \/ \E outcome \in Outcomes : Reply(outcome)
    \/ \E p \in Products : DeleteProduct(p)

SpecNotify == InitNotify /\ [][NextNotify]_vars

\* ------------------------------------------------------------ the admin
\* OrderAdmin's change form: status is an editable field with the choices
\* of STATUS_CHOICES (order_number and total_amount are read-only), and the
\* form saves the value chosen.
AdminChangeOrder(id, st) ==
    /\ \E o \in orders : o.id = id /\ o.status # st
    /\ st \in Statuses
    /\ orders' = {IF o.id = id THEN [o EXCEPT !.status = st] ELSE o : o \in orders}
    /\ UNCHANGED <<product, items, clock, pc, request, response, local, txn>>
    /\ UNCHANGED extAll

\* the product and order endpoints over a store that holds orders
NextStored ==
    \/ \E p \in Products, patch \in PricePatches : UpdateProduct(p, patch)
    \/ \E p \in Products : DeleteProduct(p)
    \/ \E c \in Customers, id \in OrderIds : GetOrder(c, id)
    \/ \E c \in Customers : ListOrders(c)

SpecStored == InitStored /\ [][NextStored]_vars

\* the admin beside the order detail, over a store that holds orders
NextAdmin ==
    \/ \E id \in OrderIds, st \in Statuses : AdminChangeOrder(id, st)
    \/ \E c \in Customers, id \in OrderIds : GetOrder(c, id)

SpecAdmin == InitStored /\ [][NextAdmin]_vars

\* ------------------------------------------------------------ categories
MaxPath == 2

\* the categories above k, following parent at most n times
RECURSIVE Ancestors(_, _, _)
Ancestors(cat, k, n) ==
    IF n = 0 \/ cat[k].parent = "none" THEN {}
    ELSE {cat[k].parent} \cup Ancestors(cat, cat[k].parent, n - 1)

\* the rows a delete of k takes with it through parent, on_delete=CASCADE
Descendants(cat, k) ==
    {c \in Cats : cat[c].exists /\ k \in Ancestors(cat, c, Cardinality(Cats))}

CategoryFrame ==
    UNCHANGED <<clock, pc, request, response, local, txn, read, saved, outbox,
                log, call, config, walk, answer>>

\* PrimaryKeyRelatedField of parent: null, or the id of a category
ParentValid(cat, v) == IF v = "none" THEN TRUE ELSE cat[v].exists

\* CategoryListCreateView, POST: CategorySerializer checks that the name is
\* new and that parent, when given, is the id of a category.
CreateCategory(k, parent, active) ==
    /\ ~category[k].exists
    /\ ParentValid(category, parent)
    /\ category' = [category EXCEPT ![k] = Cat(parent, active)]
    /\ UNCHANGED <<product, orders, items, category_of>>
    /\ CategoryFrame

\* CategoryDetailView, PATCH of parent or is_active: CategorySerializer
\* checks that parent is the id of a category, nothing else.
CategoryPatches ==
    {<<"parent", v>> : v \in Cats \cup {"none"}} \cup {<<"is_active", v>> : v \in BOOLEAN}

UpdateCategory(k, patch) ==
    /\ category[k].exists
    /\ patch[1] = "parent" => ParentValid(category, patch[2])
    /\ category' = [category EXCEPT ![k] =
          IF patch[1] = "parent" THEN [@ EXCEPT !.parent = patch[2]]
                                 ELSE [@ EXCEPT !.is_active = patch[2]]]
    /\ category' # category
    /\ UNCHANGED <<product, orders, items, category_of>>
    /\ CategoryFrame

\* CategoryDetailView, DELETE: the categories below go with it, and so do
\* their products (Product.category, CASCADE) and the order items of those
\* products (OrderItem.product, CASCADE).
DeleteCategory(k) ==
    /\ category[k].exists
    /\ LET gone == {k} \cup Descendants(category, k)
           sold == {p \in Products : product[p].exists /\ category_of[p] \in gone}
       IN  /\ category' = [c \in Cats |-> IF c \in gone THEN NoCat ELSE category[c]]
           /\ product' = [p \in Products |-> IF p \in sold THEN NoRow ELSE product[p]]
           /\ items' = {x \in items : x.product \notin sold}
    /\ UNCHANGED <<orders, category_of>>
    /\ CategoryFrame

\* ProductCreateSerializer.create, lines 95-106: get_or_create(name=...,
\* parent=...) along the path.  A name that exists under another parent is
\* not found by the lookup, and the insert then breaks the unique name: the
\* categories made so far stay (there is no transaction).
RECURSIVE WalkPath(_, _, _)
WalkPath(cat, path, parent) ==
    IF path = <<>> THEN [cat |-> cat, last |-> parent, ok |-> TRUE]
    ELSE LET n == Head(path)
         IN  IF cat[n].exists /\ cat[n].parent = parent
             THEN WalkPath(cat, Tail(path), n)
             ELSE IF cat[n].exists
             THEN [cat |-> cat, last |-> parent, ok |-> FALSE]
             ELSE WalkPath([cat EXCEPT ![n] = Cat(parent, TRUE)], Tail(path), n)

Paths == SeqsUpTo(Cats, MaxPath)

\* ProductListCreateView, POST: the serializer checks the fields (the sku is
\* new), create() walks the path and inserts the product under the last
\* category; with an empty path the insert fails on the missing category.
CreateProduct(p, path) ==
    /\ ~product[p].exists
    /\ LET w == WalkPath(category, path, "none")
       IN  /\ category' = w.cat
           /\ IF w.ok /\ w.last # "none"
              THEN /\ product' = [product EXCEPT ![p] = Row(TRUE, InitPrice(p), 1)]
                   /\ category_of' = [category_of EXCEPT ![p] = w.last]
              ELSE /\ product' = product
                   /\ category_of' = category_of
           /\ category' # category \/ product' # product
    /\ UNCHANGED <<orders, items>>
    /\ CategoryFrame

NextCategories ==
    \/ \E k \in Cats, parent \in Cats \cup {"none"}, a \in BOOLEAN :
          CreateCategory(k, parent, a)
    \/ \E k \in Cats, patch \in CategoryPatches : UpdateCategory(k, patch)
    \/ \E k \in Cats : DeleteCategory(k)
    \/ \E p \in Products, path \in Paths : CreateProduct(p, path)

SpecCategories == InitRace /\ [][NextCategories]_vars

\* ------------------------------------------------- the Category methods
\* level, get_ancestors, get_full_path and get_descendants, one loop
\* iteration or one call of _get_children per step.  A loop that runs round
\* a cycle of parents goes on for ever: its counter and its list stop
\* growing at MaxHops in the model, the loop does not stop.
MaxHops == 4

\* the depth of calls at which Python raises RecursionError, scaled down
RecursionLimit == 4

\* Meta.ordering = ['name']
CatOrder == <<"k1", "k2", "k3">>

\* category.children.all(): the rows whose parent is k, by name
Children(cat, k) ==
    SelectSeq(CatOrder, LAMBDA c : cat[c].exists /\ cat[c].parent = k)

RECURSIVE Reversed(_)
Reversed(s) == IF s = <<>> THEN <<>> ELSE Append(Reversed(Tail(s)), Head(s))

\* ' > '.join(path)
RECURSIVE Join(_)
Join(path) ==
    IF path = <<>> THEN ""
    ELSE IF Len(path) = 1 THEN Head(path)
    ELSE Head(path) \o " > " \o Join(Tail(path))

\* list.append and list.insert(0, ...) on a list the model keeps to MaxHops
Grow(path, new) == IF Len(path) < MaxHops THEN new ELSE path

\* the state of a method when it is called on the category k
StartWalk(cat, fn, k) ==
    CASE fn = "level" ->
            [NoWalk EXCEPT !.fn = fn, !.of = k, !.current = k, !.state = "running"]
      [] fn = "get_ancestors" ->
            [NoWalk EXCEPT !.fn = fn, !.of = k, !.current = cat[k].parent,
                           !.state = "running"]
      [] fn = "get_full_path" ->
            [NoWalk EXCEPT !.fn = fn, !.of = k, !.current = cat[k].parent,
                           !.path = <<k>>, !.state = "running"]
      [] fn = "get_descendants" ->
            [NoWalk EXCEPT !.fn = fn, !.of = k, !.stack = <<Children(cat, k)>>,
                           !.state = "running"]

LevelStep_NoCount(cat, w) ==
    IF cat[w.current].parent = "none"
    THEN [w EXCEPT !.state = "returned"]
    ELSE [w EXCEPT !.current = cat[w.current].parent]

\* models.py 49-57: while current.parent: level += 1; current = current.parent
LevelStep(cat, w) ==
    IF cat[w.current].parent = "none"
    THEN [w EXCEPT !.state = "returned"]
    ELSE [w EXCEPT !.level = IF @ < MaxHops THEN @ + 1 ELSE @,
                   !.current = cat[w.current].parent]

AncestorsStep_SelfFirst(cat, w) ==
    IF w.current = "none"
    THEN [w EXCEPT !.state = "returned"]
    ELSE [w EXCEPT !.path = Grow(@, Append(@, w.current)),
                   !.current = cat[w.current].parent]

\* models.py 59-66: while current: ancestors.append(current); ...; return
\* reversed(ancestors)
AncestorsStep(cat, w) ==
    IF w.current = "none"
    THEN [w EXCEPT !.path = Reversed(@), !.state = "returned"]
    ELSE [w EXCEPT !.path = Grow(@, Append(@, w.current)),
                   !.current = cat[w.current].parent]

\* models.py 80-87: while current: path.insert(0, current.name); ...; return
\* ' > '.join(path)
FullPathStep(cat, w) ==
    IF w.current = "none"
    THEN [w EXCEPT !.text = Join(w.path), !.state = "returned"]
    ELSE [w EXCEPT !.path = Grow(@, <<w.current>> \o @),
                   !.current = cat[w.current].parent]

DescendantsStep_ChildrenOnly(cat, w) ==
    IF w.stack = <<>>
    THEN [w EXCEPT !.state = "returned"]
    ELSE LET top == w.stack[Len(w.stack)]
             rest == SubSeq(w.stack, 1, Len(w.stack) - 1)
         IN  IF top = <<>>
             THEN [w EXCEPT !.stack = rest]
             ELSE [w EXCEPT !.path = Grow(@, Append(@, Head(top))),
                            !.stack = Append(rest, Tail(top))]

\* models.py 68-78: each entry of the stack is what a call of _get_children
\* has still to loop over; a call one deeper than the limit raises.
DescendantsStep(cat, w) ==
    IF w.stack = <<>>
    THEN [w EXCEPT !.state = "returned"]
    ELSE LET top == w.stack[Len(w.stack)]
             rest == SubSeq(w.stack, 1, Len(w.stack) - 1)
         IN  IF top = <<>>
             THEN [w EXCEPT !.stack = rest]
             ELSE IF Len(w.stack) >= RecursionLimit
             THEN [w EXCEPT !.state = "raised"]
             ELSE [w EXCEPT !.path = Grow(@, Append(@, Head(top))),
                            !.stack = Append(Append(rest, Tail(top)),
                                             Children(cat, Head(top)))]

WalkStep(cat, w) ==
    CASE w.fn = "level" -> LevelStep(cat, w)
      [] w.fn = "get_ancestors" -> AncestorsStep(cat, w)
      [] w.fn = "get_full_path" -> FullPathStep(cat, w)
      [] w.fn = "get_descendants" -> DescendantsStep(cat, w)

Methods == {"level", "get_ancestors", "get_full_path", "get_descendants"}

WalkFrame ==
    UNCHANGED <<product, orders, items, clock, pc, request, response, local, txn,
                read, saved, outbox, log, call, config, category, category_of,
                answer>>

\* a caller invokes the method on an existing category
Call(fn, k) ==
    /\ walk.state # "running"
    /\ category[k].exists
    /\ walk' = StartWalk(category, fn, k)
    /\ WalkFrame

\* the method's next iteration
Iterate ==
    /\ walk.state = "running"
    /\ walk' = WalkStep(category, walk)
    /\ WalkFrame

\* the method run to its end, for the callers that use its value; it is
\* only evaluated where the method ends
RECURSIVE Run(_, _)
Run(cat, w) == IF w.state # "running" THEN w ELSE Run(cat, WalkStep(cat, w))

\* the caller has taken the method's value, or its exception
Leave ==
    /\ walk.state \in {"returned", "raised"}
    /\ walk' = NoWalk
    /\ WalkFrame

\* the category store between two calls: it is not changed under a
\* method that is running, nor under a value that is still held
Quiet == walk.state = "idle"

InitWalk ==
    /\ InitRace
    /\ \A p \in Products : product[p].exists /\ product[p].is_active

NextWalk ==
    \/ \E k \in Cats, parent \in Cats \cup {"none"}, a \in BOOLEAN :
          Quiet /\ CreateCategory(k, parent, a)
    \/ \E k \in Cats, patch \in CategoryPatches : Quiet /\ UpdateCategory(k, patch)
    \/ \E fn \in Methods, k \in Cats : Call(fn, k)
    \/ Iterate
    \/ Leave

SpecWalk == InitWalk /\ [][NextWalk]_vars

\* a method that has been called goes on running
SpecWalkLive == SpecWalk /\ WF_vars(Iterate)

\* --------------------------------------------------- the catalog views
\* views.py category_tree, lines 364-383: build_tree(parent) takes the
\* active categories whose parent is parent, by name, and nests
\* build_tree(category) under each, with the category's level.
RECURSIVE build_tree(_, _)
build_tree(cat, parent) ==
    LET categories == SelectSeq(Children(cat, parent), LAMBDA c : cat[c].is_active)
    IN  [i \in 1..Len(categories) |->
            [name |-> categories[i],
             level |-> Run(cat, StartWalk(cat, "level", categories[i])).level,
             children |-> build_tree(cat, categories[i])]]

AnswerFrame ==
    UNCHANGED <<product, orders, items, clock, pc, request, response, local, txn,
                read, saved, outbox, log, call, config, category, category_of,
                walk>>

\* GET /categories/tree/
CategoryTree ==
    /\ answer' = [op |-> "tree", status |-> 200, body |-> build_tree(category, "none")]
    /\ AnswerFrame

\* Sum('price') over a set of products
RECURSIVE SumPrice(_)
SumPrice(ps) ==
    IF ps = {} THEN 0
    ELSE LET p == CHOOSE x \in ps : TRUE
         IN  product[p].price + SumPrice(ps \ {p})

\* DecimalField(decimal_places=2).to_representation of total / count: the
\* quotient in cents, rounded half to even
Quantize(total, count) ==
    LET q == total \div count
        r == total % count
    IN  IF 2 * r < count THEN q
        ELSE IF 2 * r > count THEN q + 1
        ELSE IF q % 2 = 0 THEN q ELSE q + 1

\* the JSON null
Null == "None"

\* views.py 172-179: the answer when no product matches
EmptyAverage(k) ==
    [category_id |-> k, category_name |-> k, average_price |-> Null,
     product_count |-> 0, message |-> "No products found in this category"]

\* views.py 166-170: the active products of the category and of the
\* categories get_descendants has listed
CategoryAverageProducts(k, below) ==
    {p \in Products : product[p].exists /\ product[p].is_active
                      /\ category_of[p] \in {k} \cup {below[i] : i \in 1..Len(below)}}

\* views.py category_average_price, lines 156-195
category_average_price(k) ==
    IF ~(category[k].exists /\ category[k].is_active)
    THEN [op |-> "average", id |-> k, status |-> 404]
    ELSE LET w == Run(category, StartWalk(category, "get_descendants", k))
             ps == CategoryAverageProducts(k, w.path)
         IN  IF w.state = "raised"
             THEN [op |-> "average", id |-> k, status |-> 500]
             ELSE IF ps = {}
             THEN [op |-> "average", id |-> k, status |-> 200,
                   body |-> EmptyAverage(k)]
             ELSE [op |-> "average", id |-> k, status |-> 200,
                   body |-> [category_id |-> k, category_name |-> k,
                             average_price |->
                                Quantize(SumPrice(ps), Cardinality(ps)),
                             product_count |-> Cardinality(ps)]]

\* GET /categories/<id>/average-price/
CategoryAveragePrice(k) ==
    /\ answer' = category_average_price(k)
    /\ AnswerFrame

\* the client has read the answer
Close ==
    /\ answer.op # "none"
    /\ answer' = NoAnswer
    /\ AnswerFrame

\* the store between two reads: it is not changed under an answer that is
\* being looked at
Settled == answer.op = "none"

ActivePatches == {<<"is_active", v>> : v \in BOOLEAN}

NextCatalog ==
    \/ \E k \in Cats, parent \in Cats \cup {"none"}, a \in BOOLEAN :
          Settled /\ CreateCategory(k, parent, a)
    \/ \E k \in Cats, patch \in CategoryPatches : Settled /\ UpdateCategory(k, patch)
    \/ \E p \in Products, path \in Paths : Settled /\ CreateProduct(p, path)
    \/ \E p \in Products, patch \in ActivePatches : Settled /\ UpdateProduct(p, patch)
    \/ CategoryTree
    \/ \E k \in Cats : CategoryAveragePrice(k)
    \/ Close

SpecCatalog == InitRace /\ [][NextCatalog]_vars

\* ------------------------------------------------------ order statistics
OrderStatisticsQueryset_All(c) == orders

\* views.py 348: Order.objects.filter(customer=customer)
OrderStatisticsQueryset(c) == {o \in orders : o.customer = c}

\* views.py 352: sum(order.total_amount for order in orders)
RECURSIVE SumAmount(_)
SumAmount(os) ==
    IF os = {} THEN 0
    ELSE LET o == CHOOSE x \in os : TRUE
         IN  o.total_amount + SumAmount(os \ {o})

\* views.py order_statistics, lines 343-360
OrderStatistics(c) ==
    /\ LET mine == OrderStatisticsQueryset(c)
       IN  answer' =
             [op |-> "statistics", user |-> c, status |-> 200,
              body |-> [total_orders |-> Cardinality(mine),
                        total_spent |-> SumAmount(mine),
                        orders_by_status |->
                           [st \in Statuses |->
                               Cardinality({o \in mine : o.status = st})]]]
    /\ AnswerFrame

\* the statistics beside the admin, over a store that holds orders
NextStatistics ==
    \/ \E id \in OrderIds, st \in Statuses : Settled /\ AdminChangeOrder(id, st)
    \/ \E c \in Customers : OrderStatistics(c)
    \/ Close

SpecStatistics == InitStored /\ [][NextStatistics]_vars

\* ------------------------------------------------------------- the claims
\* Every request that reaches serializer.save() ends in the TypeError of the
\* keyword clash, before create() has written a row: the orders and the
\* order_items tables stay empty.
OrdersTableEmpty == orders = {} /\ items = {}

Done(r) == pc[r] = "done"

OrdersOf(r) == {o \in orders : o.id = r}

ItemsOf(r) == {x \in items : x.order = r}

\* the request carries the single line (p, q) and has passed is_valid()
Asks(r, p, q) ==
    /\ pc[r] # "idle"
    /\ response[r].status # 400
    /\ request[r].data.items = <<Line(p, q)>>

C3_StockNeverNegative ==
    \A p \in Products : product[p].stock_quantity >= 0

C3_Witness ==
    \E r \in Reqs, s \in Reqs, p \in Products :
        /\ r # s /\ Asks(r, p, 1) /\ Asks(s, p, 1)
        /\ Done(r) /\ Done(s)
        /\ product[p].exists /\ product[p].stock_quantity = 0

EndedInError(r) == Done(r) /\ response[r].status # 201

C5_NothingLeftBehind ==
    \A r \in Reqs : EndedInError(r) => (OrdersOf(r) = {} /\ ItemsOf(r) = {})

\* the step is one of request r's handler
StepOf(r) == pc'[r] # pc[r] \/ local'[r] # local[r] \/ txn'[r] # txn[r]

C5_StockOnlyWithOrder ==
    \A r \in Reqs :
        (StepOf(r) /\ product' # product) => \E o \in orders' : o.id = r

LinesOf(r) == request[r].data.items

StockFound(r, i) ==
    IF local[r].items # <<>>
    THEN local[r].items[i].stock_quantity
    ELSE product[LinesOf(r)[i].product_id].stock_quantity

HasDuplicate(ls) ==
    \E i \in 1..Len(ls), j \in 1..Len(ls) : i < j /\ ls[i].product_id = ls[j].product_id

RECURSIVE LinesTotal(_)
LinesTotal(ls) ==
    IF ls = <<>> THEN 0
    ELSE product[ls[1].product_id].price * ls[1].quantity + LinesTotal(Tail(ls))

\* a step of request r that touches none of the tables
NoEffect(r) == StepOf(r) => UNCHANGED <<product, orders, items>>

WellFormed(r) ==
    /\ request[r].data.shipping_address # ""
    /\ LinesOf(r) # <<>>
    /\ ~HasDuplicate(LinesOf(r))
    /\ \A i \in 1..Len(LinesOf(r)) :
          /\ product[LinesOf(r)[i].product_id].exists
          /\ product[LinesOf(r)[i].product_id].is_active
          /\ LinesOf(r)[i].quantity >= 1
          /\ LinesOf(r)[i].quantity <= StockFound(r, i)

OrderPlaced(r) ==
    /\ response[r].status = 201
    /\ Cardinality(OrdersOf(r)) = 1
    /\ \A o \in OrdersOf(r) :
          o.customer = request[r].user /\ o.total_amount = LinesTotal(LinesOf(r))
    /\ Cardinality(ItemsOf(r)) = Len(LinesOf(r))
    /\ \A i \in 1..Len(LinesOf(r)) :
          /\ \E x \in ItemsOf(r) :
                x.product = LinesOf(r)[i].product_id /\ x.quantity = LinesOf(r)[i].quantity
          /\ product[LinesOf(r)[i].product_id].stock_quantity
                = StockFound(r, i) - LinesOf(r)[i].quantity

\* C6: a request with an address and lines naming distinct active products,
\* each quantity between 1 and the stock, ends with 201, exactly one order of
\* the caller whose total is the sum of price x quantity, one order item per
\* line, and each product's stock reduced by the line's quantity.
C6_WellFormedOrderPlaced ==
    \A r \in Reqs : (Done(r) /\ WellFormed(r)) => OrderPlaced(r)

\* line i asks for more than there is of its product
Short(ls, i) ==
    /\ product[ls[i].product_id].exists
    /\ ls[i].quantity > product[ls[i].product_id].stock_quantity

ShortError(ls, i) ==
    Err("items", "insufficient_stock", ls[i].product_id,
        product[ls[i].product_id].stock_quantity)

Arrives(r) == pc[r] = "idle" /\ pc'[r] # "idle"

\* C7 as stated: a request with a line whose quantity exceeds the stock of
\* its product is answered with the insufficient-stock error of such a line,
\* naming the product and what is available, and touches no table.
C7_AnyShortLineReported ==
    [][\A r \in Reqs :
          (Arrives(r) /\ \E i \in 1..Len(LinesOf(r)') : Short(LinesOf(r)', i))
          => /\ pc'[r] = "done"
             /\ response'[r].status = 400
             /\ \E i \in 1..Len(LinesOf(r)') :
                   Short(LinesOf(r)', i) /\ ShortError(LinesOf(r)', i) \in response'[r].errors
             /\ UNCHANGED <<product, orders, items>>]_vars

\* line i names a product that is not there or is inactive
Unknown(ls, i) ==
    ~(product[ls[i].product_id].exists /\ product[ls[i].product_id].is_active)

FirstFailureShort(ls, i) ==
    /\ ~Unknown(ls, i) /\ Short(ls, i)
    /\ \A j \in 1..(i - 1) : ~Unknown(ls, j) /\ ~Short(ls, j)

\* C7 as amended: when the first line that names an unknown or inactive
\* product or asks for more than the stock is a line of an active product
\* asking for more than the stock, the request is answered with the
\* insufficient-stock error naming that product and what is available of it,
\* and touches no table.
C7_FirstShortLineReported ==
    [][\A r \in Reqs :
          \A i \in 1..Len(LinesOf(r)') :
              (Arrives(r) /\ FirstFailureShort(LinesOf(r)', i))
              => /\ pc'[r] = "done"
                 /\ response'[r].status = 400
                 /\ ShortError(LinesOf(r)', i) \in response'[r].errors
                 /\ UNCHANGED <<product, orders, items>>]_vars

C7_Witness ==
    \E r \in Reqs :
        /\ Done(r)
        /\ \E i \in 1..Len(LinesOf(r)) :
              FirstFailureShort(LinesOf(r), i) /\ ShortError(LinesOf(r), i) \in response[r].errors

C8_Rejected ==
    \A r \in Reqs :
        (Done(r) /\ HasDuplicate(LinesOf(r)))
        => (response[r].status = 400 /\ OrdersOf(r) = {} /\ ItemsOf(r) = {})

C8_NoEffect ==
    \A r \in Reqs : HasDuplicate(LinesOf(r)') => NoEffect(r)

\* C8: a request that names one product in two lines is answered with a
\* validation error, leaves no order and no order item behind and touches no
\* table.
C8_DuplicateRejected == []C8_Rejected /\ [][C8_NoEffect]_vars

\* C9: a request with a line whose product is not there or is inactive is
\* answered with a validation error in the step it arrives in, and that step
\* touches no table.
C9_UnknownProductRejected ==
    [][\A r \in Reqs :
          (Arrives(r) /\ \E i \in 1..Len(LinesOf(r)') : Unknown(LinesOf(r)', i))
          => /\ pc'[r] = "done"
             /\ response'[r].status = 400
             /\ UNCHANGED <<product, orders, items>>]_vars

C9_Witness ==
    \E r \in Reqs :
        /\ Done(r) /\ response[r].status = 400
        /\ request[r].data.shipping_address # ""
        /\ \E i \in 1..Len(LinesOf(r)) :
              /\ Unknown(LinesOf(r), i)
              /\ product[LinesOf(r)[i].product_id].exists
        /\ \E i \in 1..Len(LinesOf(r)) : ~product[LinesOf(r)[i].product_id].exists

C10_Rejected ==
    /\ \A x \in items : x.quantity >= 1
    /\ \A r \in Reqs :
          (Done(r) /\ \E i \in 1..Len(LinesOf(r)) : LinesOf(r)[i].quantity < 1)
          => response[r].status = 400

C10_NoEffect ==
    \A r \in Reqs :
        (\E i \in 1..Len(LinesOf(r)') : LinesOf(r)'[i].quantity < 1) => NoEffect(r)

\* C10: no order item has a quantity below 1, and a request with a line whose
\* quantity is 0 or negative is answered with a validation error and touches
\* no table.
C10_QuantityAtLeastOne == []C10_Rejected /\ [][C10_NoEffect]_vars

\* C11: every stored order owns at least one order item.
C11_OrderOwnsItems ==
    \A o \in orders : ItemsOf(o.id) # {}

\* C12: the order numbers of the stored orders differ from one another, and
\* no order fails to be stored because the number it was given is taken.
C12_OrderNumbersUnique ==
    /\ \A a \in orders, b \in orders : a.order_number = b.order_number => a = b
    /\ saved.error # "IntegrityError"

C13_Snapshot ==
    \A x \in items :
        /\ x.unit_price = InitPrice(x.product)
        /\ x.total_price = x.unit_price * x.quantity

C13_PriceChangeFrame ==
    (\E p \in Products : product'[p].exists /\ product'[p].price # product[p].price)
        => (items' = items /\ orders' = orders)

\* C13: the unit price of an order item is the price its product had when
\* the order was placed (SpecStored places the orders at InitPrice), its
\* total is that price times the quantity, and a step that changes a
\* product's price changes no order item and no order.
C13_PriceSnapshotKept == []C13_Snapshot /\ [][C13_PriceChangeFrame]_vars

C13_Witness ==
    \E x \in items, o \in orders :
        /\ o.id = x.order
        /\ product[x.product].exists
        /\ product[x.product].price # x.unit_price
        /\ o.total_amount = SumOf(ItemsOf(o.id))

IdsOf(S) == {o.id : o \in S}

Rank(st) == CHOOSE i \in 1..Len(STATUS_CHOICES) : STATUS_CHOICES[i] = st

Terminal(st) == st \in {"delivered", "cancelled"}

Forward(old, new) ==
    /\ ~Terminal(old)
    /\ new = "cancelled" \/ Rank(new) > Rank(old)

\* C15: a step changes the status of an order only forward along pending,
\* confirmed, processing, shipped, delivered, or to cancelled, and never
\* once the order is delivered or cancelled.
C15_StatusMovesForward ==
    [][\A o \in orders, n \in orders' :
          (o.id = n.id /\ o.status # n.status) => Forward(o.status, n.status)]_vars

C17_Swallowed ==
    call.failure =>
        /\ call.stage = "returned"
        /\ \E e \in log : e.fn = call.fn /\ e.order = call.order /\ e.level # "info"

C17_Frame ==
    call' # call => (orders' = orders /\ items' = items /\ product' = product)

\* C17: a send that fails is logged and the function returns without
\* raising, and the notification functions change no order, order item or
\* product.
C17_FailureLoggedNotRaised == []C17_Swallowed /\ [][C17_Frame]_vars

\* what the view's two functions do with a failure
ViewSendsSwallow ==
    call.fn \in {"send_customer_sms", "send_admin_email"} =>
        /\ call.stage # "raised"
        /\ call.failure => \E e \in log : e.fn = call.fn /\ e.level = "error"

C20_ParentChainAcyclic ==
    \A k \in Cats :
        category[k].exists => k \notin Ancestors(category, k, Cardinality(Cats))

\* C1: the total of every stored order is the sum of the totals of the order
\* items it owns, and the total of every order item is its unit price times
\* its quantity.
C1_TotalIsSumOfItems ==
    /\ \A o \in orders : o.total_amount = SumOf(ItemsOf(o.id))
    /\ \A x \in items : x.total_price = x.unit_price * x.quantity


\* the method fn has returned from a call on some category
ReturnedFrom(fn) == walk.fn = fn /\ walk.state = "returned"

\* the number of parent links between k and its root
Hops(k) == Cardinality(Ancestors(category, k, Cardinality(Cats)))

\* C21: the level a category reports is the number of parent hops up to its
\* root: 0 for a root, and one more than the level of its parent otherwise.
C21_LevelIsHops ==
    ReturnedFrom("level") =>
        /\ walk.level = Hops(walk.of)
        /\ category[walk.of].parent = "none" => walk.level = 0
        /\ category[walk.of].parent # "none" =>
              walk.level = Hops(category[walk.of].parent) + 1

\* the third category of a chain of three has reported level 2
C21_Witness ==
    /\ ReturnedFrom("level")
    /\ walk.level = 2
    /\ category[walk.of].parent # "none"
    /\ category[category[walk.of].parent].parent # "none"

\* s lists the categories above k from the root down to the parent of k
RootFirst(s, k) ==
    /\ Len(s) = Hops(k)
    /\ \A i \in 1..Len(s) :
          /\ category[s[i]].parent = (IF i = 1 THEN "none" ELSE s[i - 1])
          /\ s[i] = category[IF i = Len(s) THEN k ELSE s[i + 1]].parent

\* C22: get_ancestors gives the categories above a category from the root
\* down, without the category itself, and get_full_path gives the names of
\* exactly those, in that order, then the category's own name, with " > "
\* between them.
C22_AncestorsRootFirst ==
    /\ ReturnedFrom("get_ancestors") =>
          /\ RootFirst(walk.path, walk.of)
          /\ \A i \in 1..Len(walk.path) : walk.path[i] # walk.of
    /\ ReturnedFrom("get_full_path") =>
          /\ walk.path[Len(walk.path)] = walk.of
          /\ RootFirst(SubSeq(walk.path, 1, Len(walk.path) - 1), walk.of)
          /\ walk.text = Join(walk.path)
          /\ Len(walk.path) = 3 =>
                walk.text = walk.path[1] \o " > " \o walk.path[2] \o " > " \o walk.path[3]

\* the full path of the last category of the chain k1, k2, k3
C22_Witness ==
    /\ ReturnedFrom("get_full_path")
    /\ walk.of = "k3"
    /\ walk.text = "k1 > k2 > k3"

\* C23: get_descendants gives exactly the categories that are reached from
\* the category through one or more child links, each of them once, and not
\* the category itself.
C23_DescendantsExact ==
    ReturnedFrom("get_descendants") =>
        /\ {walk.path[i] : i \in 1..Len(walk.path)} = Descendants(category, walk.of)
        /\ Len(walk.path) = Cardinality(Descendants(category, walk.of))
        /\ \A i \in 1..Len(walk.path) : walk.path[i] # walk.of

\* the root of the chain k1, k2, k3 has answered with k2 and k3
C23_Witness ==
    /\ ReturnedFrom("get_descendants")
    /\ walk.of = "k1"
    /\ category["k2"].parent = "k1"
    /\ category["k3"].parent = "k2"
    /\ walk.path = <<"k2", "k3">>

\* C29: a Category method that has been called on a category comes to an
\* end, whatever state the category store has reached, a store whose
\* parents were changed through the update endpoint included.
C29_MethodsTerminate == (walk.state = "running") ~> (walk.state # "running")

\* the active categories all of whose ancestors are active
Shown(k) ==
    /\ category[k].exists /\ category[k].is_active
    /\ \A a \in Ancestors(category, k, Cardinality(Cats)) : category[a].is_active

\* the nodes of a tree, each with the node it is nested under
RECURSIVE NodesOf(_, _)
NodesOf(tree, under) ==
    IF tree = <<>> THEN <<>>
    ELSE <<[name |-> Head(tree).name, under |-> under,
            leaf |-> Head(tree).children = <<>>]>>
         \o NodesOf(Head(tree).children, Head(tree).name)
         \o NodesOf(Tail(tree), under)

\* C24: the category tree holds exactly the active categories all of whose
\* ancestors are active, each once and under its parent, the top level being
\* those without parent; a category without active children has no children
\* in the tree, and nothing below an inactive category appears.
C24_TreeOfActive ==
    answer.op = "tree" =>
        LET nodes == NodesOf(answer.body, "none")
        IN  /\ {nodes[i].name : i \in 1..Len(nodes)} = {k \in Cats : Shown(k)}
            /\ Len(nodes) = Cardinality({k \in Cats : Shown(k)})
            /\ \A i \in 1..Len(nodes) :
                  /\ category[nodes[i].name].parent = nodes[i].under
                  /\ nodes[i].leaf =
                        ~\E c \in Cats : /\ category[c].exists /\ category[c].is_active
                                         /\ category[c].parent = nodes[i].name

\* the category the average was asked for, and the active products in it
\* and in the categories below it
Asked == answer.id

Subtree(k) == {k} \cup Descendants(category, k)

ActiveIn(k) ==
    {p \in Products : product[p].exists /\ product[p].is_active
                      /\ category_of[p] \in Subtree(k)}

OnActiveCategory ==
    answer.op = "average" /\ category[Asked].exists /\ category[Asked].is_active

\* C25: the average price of an existing active category is taken over
\* exactly the active products of the category and of the categories below
\* it at any depth: the count reported is their number, the total reported
\* is the sum of their prices, and the average is the total over the count.
C25_SubtreeAggregate ==
    (OnActiveCategory /\ ActiveIn(Asked) # {}) =>
        /\ answer.status = 200
        /\ answer.body.product_count = Cardinality(ActiveIn(Asked))
        /\ "total_value" \in DOMAIN answer.body
        /\ answer.body.total_value = SumPrice(ActiveIn(Asked))
        /\ answer.body.average_price * answer.body.product_count
              = SumPrice(ActiveIn(Asked))

\* C26: the average price of an existing active category with no active
\* product in it or below it is an answer with product_count 0 and a null
\* average: not an error, and not an average of 0.
C26_EmptyAverageIsNull ==
    (OnActiveCategory /\ ActiveIn(Asked) = {}) =>
        /\ answer.status = 200
        /\ answer.body.product_count = 0
        /\ answer.body.average_price = Null

\* C27: the statistics of a customer are taken over exactly the orders of
\* that customer: total_orders is their number and total_spent the sum of
\* their total_amount; no order of another customer is counted.
C27_OwnOrdersCounted ==
    answer.op = "statistics" =>
        LET own == {o \in orders : o.customer = answer.user}
        IN  /\ answer.body.total_orders = Cardinality(own)
            /\ answer.body.total_spent = SumAmount(own)
            /\ answer.body.total_orders + Cardinality(orders \ own)
                  = Cardinality(orders)

\* a customer with an order has asked while another customer has one too
C27_Witness ==
    /\ answer.op = "statistics"
    /\ answer.body.total_orders = 1
    /\ answer.body.total_spent > 0
    /\ \E o \in orders : o.customer # answer.user

\* the categories of path stand in cat as a chain from a root down
ChainIn(cat, path) ==
    \A i \in 1..Len(path) :
        /\ cat[path[i]].exists
        /\ cat[path[i]].parent = (IF i = 1 THEN "none" ELSE path[i - 1])

\* C28: creating a product with a category path succeeds: afterwards the
\* categories of the path exist as a chain from a root down, a category
\* that was already there with that name and parent is the one used, and
\* the new product is in the last category of the path.
C28_PathCreated ==
    [][\A p \in Products, path \in Paths \ {<<>>} :
          CreateProduct(p, path) =>
              /\ product'[p].exists
              /\ ChainIn(category', path)
              /\ category_of'[p] = path[Len(path)]
              /\ \A k \in Cats : category[k].exists => category'[k] = category[k]]_vars

\* the products the lines of request r name
Named(r) == {LinesOf(r)[i].product_id : i \in 1..Len(LinesOf(r))}

C30_OwnRowsOnly(r) ==
    /\ \A p \in Products :
          IF p \in Named(r)
          THEN product'[p] =
                  [product[p] EXCEPT !.stock_quantity = product'[p].stock_quantity]
          ELSE product'[p] = product[p]
    /\ orders \subseteq orders'
    /\ \A o \in orders' \ orders : o.id = r
    /\ items \subseteq items'
    /\ \A x \in items' \ items : x.order = r

====
